---- MODULE Spec2Model ----
(***************************************************************************)
(* Model of the gb_emulator instruction-execution core: the CPU aggregate  *)
(* (pc, sp, register file, memory), CPU::execute_instruction with every    *)
(* arm of its dispatch macros, and the ALU / bit / rotate helpers it       *)
(* calls, computed as the Rust code computes them on u8 / u16 values.      *)
(***************************************************************************)
EXTENDS Integers, Sequences, FiniteSets, TLC

VARIABLES
    cpu,      \* the CPU aggregate: [pc, sp, registers, memory]
    status,   \* "ready" | "returned" | "unimplemented" (todo!() panicked)
    calls     \* history: one [instruction, before] record per call made

vars == <<cpu, status, calls>>

----------------------------------------------------------------------------
(* Fixed-width integer operators of the Rust code (u8 and u16).            *)

RECURSIVE BitAnd(_, _)
BitAnd(x, y) ==
    IF x = 0 \/ y = 0 THEN 0
    ELSE (x % 2) * (y % 2) + 2 * BitAnd(x \div 2, y \div 2)

RECURSIVE BitOr(_, _)
BitOr(x, y) ==
    IF x = 0 THEN y
    ELSE IF y = 0 THEN x
    ELSE (IF (x % 2) + (y % 2) > 0 THEN 1 ELSE 0) + 2 * BitOr(x \div 2, y \div 2)

RECURSIVE BitXor(_, _)
BitXor(x, y) ==
    IF x = 0 THEN y
    ELSE IF y = 0 THEN x
    ELSE (((x % 2) + (y % 2)) % 2) + 2 * BitXor(x \div 2, y \div 2)

RECURSIVE Pow2(_)
Pow2(n) == IF n = 0 THEN 1 ELSE 2 * Pow2(n - 1)

\* u8 << n and u8 >> n (bits shifted out of the 8-bit value are lost)
Shl8(x, n) == (x * Pow2(n)) % 256
Shr8(x, n) == x \div Pow2(n)

\* !value on a u8
Not8(x) == 255 - x

\* u8::from(bool)
u8_from_bool(flag) == IF flag THEN 1 ELSE 0

\* u8::overflowing_add / overflowing_sub / wrapping_add / wrapping_sub
overflowing_add8(x, y) == [value |-> (x + y) % 256, overflow |-> x + y > 255]
overflowing_sub8(x, y) == [value |-> (x - y + 256) % 256, overflow |-> x < y]
wrapping_add8(x, y) == (x + y) % 256
wrapping_sub8(x, y) == (x - y + 256) % 256

\* the same on u16
overflowing_add16(x, y) == [value |-> (x + y) % 65536, overflow |-> x + y > 65535]
wrapping_add16(x, y) == (x + y) % 65536
wrapping_sub16(x, y) == (x - y + 65536) % 65536

----------------------------------------------------------------------------
(* Instruction model (cpu/instructions.rs).                                *)

ArithmeticTarget == {"A", "B", "C", "D", "E", "H", "L", "HLI"}
IncDecTarget == {"A", "B", "C", "D", "E", "H", "L", "BC", "DE", "HL", "HLI", "SP"}
ADDHLTarget == {"BC", "DE", "HL", "SP"}
PrefixTarget == {"A", "B", "C", "D", "E", "H", "L", "HLI"}
BitPosition == {"B0", "B1", "B2", "B3", "B4", "B5", "B6", "B7"}
LoadByteTarget == {"A", "B", "C", "D", "E", "H", "L", "HLI"}
LoadByteSource == {"A", "B", "C", "D", "E", "H", "L", "HLI"}

\* impl From<BitPosition> for u8
u8_from_BitPosition(value) ==
    CASE value = "B0" -> 0
      [] value = "B1" -> 1
      [] value = "B2" -> 2
      [] value = "B3" -> 3
      [] value = "B4" -> 4
      [] value = "B5" -> 5
      [] value = "B6" -> 6
      [] value = "B7" -> 7

\* LoadType::BYTE(LoadByteSource, LoadByteTarget): a tuple variant, fields by position
LoadType == [kind : {"BYTE"}, f0 : LoadByteSource, f1 : LoadByteTarget]

Instruction ==
         [op : {"ADD", "ADC", "AND", "CP", "OR", "SBC", "SUB", "XOR"}, target : ArithmeticTarget]
    \cup [op : {"DEC", "INC"}, target : IncDecTarget]
    \cup [op : {"ADDHL"}, target : ADDHLTarget]
    \cup [op : {"BIT", "SET"}, target : PrefixTarget, bit_position : BitPosition]
    \cup [op : {"SWAP", "RL", "RLC", "RR", "RRC"}, target : PrefixTarget]
    \cup [op : {"RLA", "RLCA", "RRA", "RRCA", "CCF", "CPL", "SCF"}]
    \cup [op : {"LD"}, load_type : LoadType]

----------------------------------------------------------------------------
(* Register file (cpu/registers.rs is not among the sources: modelled from *)
(* the register-file section of the specification).                        *)

RegisterNames == {"a", "b", "c", "d", "e", "h", "l"}

\* all 8-bit registers zero, all four flags false
Registers_new ==
    [a |-> 0, b |-> 0, c |-> 0, d |-> 0, e |-> 0, h |-> 0, l |-> 0,
     f |-> [zero |-> FALSE, subtract |-> FALSE, half_carry |-> FALSE, carry |-> FALSE]]

\* paired 16-bit views: (hi << 8) | lo, and the split back into the owners
get_bc(registers) == registers.b * 256 + registers.c
get_de(registers) == registers.d * 256 + registers.e
get_hl(registers) == registers.h * 256 + registers.l
set_bc(registers, value) == [registers EXCEPT !.b = value \div 256, !.c = value % 256]
set_de(registers, value) == [registers EXCEPT !.d = value \div 256, !.e = value % 256]
set_hl(registers, value) == [registers EXCEPT !.h = value \div 256, !.l = value % 256]

----------------------------------------------------------------------------
(* Memory (memory.rs). The bus array is kept run-length encoded: a         *)
(* sequence of runs [n, v], each standing for n consecutive bytes v.       *)

BANK_0_START == 0
BANK_0_END == 16383
BANK_0_SIZE == BANK_0_END - BANK_0_START + 1
BANK_N_START == 16384
BANK_N_END == 32767
BANK_N_SIZE == BANK_N_END - BANK_N_START + 1
BUS_LEN == 65535

RECURSIVE ArrayLen(_)
ArrayLen(runs) == IF runs = <<>> THEN 0 ELSE Head(runs).n + ArrayLen(Tail(runs))

InterruptFlags_new ==
    [vblank |-> FALSE, stat |-> FALSE, timer |-> FALSE, serial |-> FALSE, joypad |-> FALSE]

\* Memory::new copying the first 0x8000 bytes of any image at least that long
\* (Take: the first n bytes of an array)
RECURSIVE Take(_, _)
Take(runs, n) ==
    IF n = 0 \/ runs = <<>> THEN <<>>
    ELSE IF Head(runs).n >= n THEN <<[n |-> n, v |-> Head(runs).v]>>
    ELSE <<Head(runs)>> \o Take(Tail(runs), n - Head(runs).n)

Memory_new_truncates(boot_rom, rom) ==
    IF ArrayLen(rom) < BANK_0_SIZE + BANK_N_SIZE
    THEN [outcome |-> "fatal"]
    ELSE [outcome |-> "ok",
          memory |-> [bus |-> Take(rom, BANK_0_SIZE + BANK_N_SIZE)
                                  \o <<[n |-> BUS_LEN - (BANK_0_SIZE + BANK_N_SIZE), v |-> 255]>>,
                      interrupt_flags |-> InterruptFlags_new]]

\* Memory::new: [0xFF; 0xFFFF], then bus[0..0x8000].copy_from_slice(rom), which
\* panics unless the source slice is exactly as long as the destination
Memory_new(boot_rom, rom) ==
    IF ArrayLen(rom) # BANK_0_SIZE + BANK_N_SIZE
    THEN [outcome |-> "fatal"]
    ELSE [outcome |-> "ok",
          memory |-> [bus |-> rom \o <<[n |-> BUS_LEN - (BANK_0_SIZE + BANK_N_SIZE), v |-> 255]>>,
                      interrupt_flags |-> InterruptFlags_new]]

\* bus[index]: the byte at an index within the array
RECURSIVE ByteAt(_, _)
ByteAt(runs, index) ==
    IF index < Head(runs).n THEN Head(runs).v
    ELSE ByteAt(Tail(runs), index - Head(runs).n)

\* Memory::read_byte: self.bus[address as usize], an indexing that panics when
\* the index is not below the array's length
Memory_read_byte(self, address) ==
    IF address < ArrayLen(self.bus)
    THEN [outcome |-> "ok", ret |-> ByteAt(self.bus, address)]
    ELSE [outcome |-> "fatal"]

\* Memory::read_byte_range: read_byte of every address of start..=end, in
\* order (called with start <= end only)
Memory_read_byte_range(self, start, end) ==
    IF \E address \in start..end : Memory_read_byte(self, address).outcome # "ok"
    THEN [outcome |-> "fatal"]
    ELSE [outcome |-> "ok",
          ret |-> [i \in 1..(end - start + 1) |-> Memory_read_byte(self, start + i - 1).ret]]

\* Memory::official_logo
Memory_official_logo ==
    <<
      206, 237, 102, 102, 204, 13, 0, 11, 3, 115, 0, 131, 0, 12,
      0, 13, 0, 8, 17, 31, 136, 137, 0, 14, 220, 204, 110, 230,
      221, 221, 217, 153, 187, 187, 103, 99, 110, 14, 236, 204, 221, 220,
      153, 159, 187, 185, 51, 62
    >>

\* Memory::verify_logo: read_byte_range(0x0104..0x0133), then every byte of the
\* official logo must be contained in the bytes read; a panic otherwise
Memory_verify_logo(self) ==
    LET logo_data == Memory_read_byte_range(self, 260, 307) IN
    IF logo_data.outcome # "ok" THEN [outcome |-> "fatal"]
    ELSE
        LET matches == \A i \in 1..Len(Memory_official_logo) :
                           \E j \in 1..Len(logo_data.ret) :
                               logo_data.ret[j] = Memory_official_logo[i]
        IN IF matches THEN [outcome |-> "ok"] ELSE [outcome |-> "fatal"]

\* CPU::new
CPU_new(boot_rom, rom) ==
    LET m == Memory_new(boot_rom, rom) IN
    IF m.outcome # "ok"
    THEN [outcome |-> "fatal"]
    ELSE [outcome |-> "ok",
          cpu |-> [pc |-> 0, sp |-> 0, registers |-> Registers_new, memory |-> m.memory]]

----------------------------------------------------------------------------
(* The CPU's instruction helpers (cpu/mod.rs). Each takes the CPU record   *)
(* and returns [self |-> the CPU after the call, ret |-> the value         *)
(* returned]; a helper returning nothing has ret = 0.                      *)

WithFlags(self, f) == [self EXCEPT !.registers.f = f]

\* 8 bit instructions

add(self, value) ==
    LET r == overflowing_add8(self.registers.a, value) IN
    [self |-> WithFlags(self, [self.registers.f EXCEPT
                  !.zero = (r.value = 0),
                  !.subtract = FALSE,
                  !.half_carry = BitAnd(self.registers.a, 15) + BitAnd(value, 15) > 15,
                  !.carry = r.overflow]),
     ret |-> r.value]

\* adc with the overflow of the carry addition left out of the carry flag
adc_carry_of_first_add_only(self, value) ==
    LET carry == u8_from_bool(self.registers.f.carry)
        r1 == overflowing_add8(self.registers.a, value)
        r2 == overflowing_add8(r1.value, carry)
    IN
    [self |-> WithFlags(self, [self.registers.f EXCEPT
                  !.zero = (r2.value = 0),
                  !.subtract = FALSE,
                  !.half_carry = BitAnd(self.registers.a, 15) + BitAnd(value, 15) + carry > 15,
                  !.carry = r1.overflow]),
     ret |-> r2.value]

adc(self, value) ==
    LET carry == u8_from_bool(self.registers.f.carry)
        r1 == overflowing_add8(self.registers.a, value)
        r2 == overflowing_add8(r1.value, carry)
    IN
    [self |-> WithFlags(self, [self.registers.f EXCEPT
                  !.zero = (r2.value = 0),
                  !.subtract = FALSE,
                  !.half_carry = BitAnd(self.registers.a, 15) + BitAnd(value, 15) + carry > 15,
                  !.carry = r1.overflow \/ r2.overflow]),
     ret |-> r2.value]

and(self, value) ==
    LET new_value == BitAnd(self.registers.a, value) IN
    [self |-> WithFlags(self, [self.registers.f EXCEPT
                  !.zero = (new_value = 0),
                  !.subtract = FALSE,
                  !.half_carry = TRUE,
                  !.carry = FALSE]),
     ret |-> new_value]

\* compare with >= for > in the half-carry test
compare_half_carry_on_equal(self, value) ==
    LET r == overflowing_sub8(self.registers.a, value) IN
    [self |-> WithFlags(self, [self.registers.f EXCEPT
                  !.zero = (r.value = 0),
                  !.subtract = TRUE,
                  !.half_carry = BitAnd(value, 15) >= BitAnd(self.registers.a, 15),
                  !.carry = r.overflow]),
     ret |-> 0]

compare(self, value) ==
    LET r == overflowing_sub8(self.registers.a, value) IN
    [self |-> WithFlags(self, [self.registers.f EXCEPT
                  !.zero = (r.value = 0),
                  !.subtract = TRUE,
                  !.half_carry = BitAnd(value, 15) > BitAnd(self.registers.a, 15),
                  !.carry = r.overflow]),
     ret |-> 0]

\* dec with a saturating subtraction for the wrapping one
dec_saturating(self, value) ==
    LET new_value == IF value = 0 THEN 0 ELSE value - 1 IN
    [self |-> WithFlags(self, [self.registers.f EXCEPT
                  !.zero = (new_value = 0),
                  !.subtract = TRUE,
                  !.half_carry = (BitAnd(value, 15) = 0)]),
     ret |-> new_value]

dec(self, value) ==
    LET new_value == wrapping_sub8(value, 1) IN
    [self |-> WithFlags(self, [self.registers.f EXCEPT
                  !.zero = (new_value = 0),
                  !.subtract = TRUE,
                  !.half_carry = (BitAnd(value, 15) = 0)]),
     ret |-> new_value]

\* inc with the wrap of the addition written to the carry flag
inc_carry_on_wrap(self, value) ==
    LET r == overflowing_add8(value, 1) IN
    [self |-> WithFlags(self, [self.registers.f EXCEPT
                  !.zero = (r.value = 0),
                  !.subtract = FALSE,
                  !.half_carry = (BitAnd(value, 15) = 15),
                  !.carry = r.overflow]),
     ret |-> r.value]

inc(self, value) ==
    LET new_value == wrapping_add8(value, 1) IN
    [self |-> WithFlags(self, [self.registers.f EXCEPT
                  !.zero = (new_value = 0),
                  !.subtract = FALSE,
                  !.half_carry = (BitAnd(value, 15) = 15)]),
     ret |-> new_value]

or(self, value) ==
    LET new_value == BitOr(self.registers.a, value) IN
    [self |-> WithFlags(self, [self.registers.f EXCEPT
                  !.zero = (new_value = 0),
                  !.subtract = FALSE,
                  !.half_carry = FALSE,
                  !.carry = FALSE]),
     ret |-> new_value]

\* sbc with the underflow of the carry subtraction left out of the carry flag
sbc_carry_of_first_sub_only(self, value) ==
    LET carry == u8_from_bool(self.registers.f.carry)
        r1 == overflowing_sub8(self.registers.a, value)
        r2 == overflowing_sub8(r1.value, carry)
    IN
    [self |-> WithFlags(self, [self.registers.f EXCEPT
                  !.zero = (r2.value = 0),
                  !.subtract = TRUE,
                  !.half_carry = BitAnd(value, 15) + carry > BitAnd(self.registers.a, 15),
                  !.carry = r1.overflow]),
     ret |-> r2.value]

sbc(self, value) ==
    LET carry == u8_from_bool(self.registers.f.carry)
        r1 == overflowing_sub8(self.registers.a, value)
        r2 == overflowing_sub8(r1.value, carry)
    IN
    [self |-> WithFlags(self, [self.registers.f EXCEPT
                  !.zero = (r2.value = 0),
                  !.subtract = TRUE,
                  !.half_carry = BitAnd(value, 15) + carry > BitAnd(self.registers.a, 15),
                  !.carry = r1.overflow \/ r2.overflow]),
     ret |-> r2.value]

sub(self, value) ==
    LET r == overflowing_sub8(self.registers.a, value) IN
    [self |-> WithFlags(self, [self.registers.f EXCEPT
                  !.zero = (r.value = 0),
                  !.subtract = TRUE,
                  !.half_carry = BitAnd(value, 15) > BitAnd(self.registers.a, 15),
                  !.carry = r.overflow]),
     ret |-> r.value]

xor(self, value) ==
    LET new_value == BitXor(self.registers.a, value) IN
    [self |-> WithFlags(self, [self.registers.f EXCEPT
                  !.zero = (new_value = 0),
                  !.subtract = FALSE,
                  !.half_carry = FALSE,
                  !.carry = FALSE]),
     ret |-> new_value]

\* 16 bit instructions

\* add_hl with a 12-bit mask (0xFFF) for the 11-bit one
add_hl_mask_12_bits(self, value) ==
    LET hl == get_hl(self.registers)
        r == overflowing_add16(hl, value)
        mask == 4095
    IN
    [self |-> WithFlags(self, [self.registers.f EXCEPT
                  !.subtract = FALSE,
                  !.carry = r.overflow,
                  !.half_carry = BitAnd(value, mask) + BitAnd(hl, mask) > mask]),
     ret |-> r.value]

add_hl(self, value) ==
    LET hl == get_hl(self.registers)
        r == overflowing_add16(hl, value)
        mask == 2047
    IN
    [self |-> WithFlags(self, [self.registers.f EXCEPT
                  !.subtract = FALSE,
                  !.carry = r.overflow,
                  !.half_carry = BitAnd(value, mask) + BitAnd(hl, mask) > mask]),
     ret |-> r.value]

inc_16bit(self, value) == [self |-> self, ret |-> wrapping_add16(value, 1)]

dec_16bit(self, value) == [self |-> self, ret |-> wrapping_sub16(value, 1)]

\* Bit instructions

bit(self, value, bit_position) ==
    [self |-> WithFlags(self, [self.registers.f EXCEPT
                  !.zero = (BitAnd(Shr8(value, u8_from_BitPosition(bit_position)), 1) = 0),
                  !.subtract = FALSE,
                  !.half_carry = TRUE]),
     ret |-> 0]

\* set with the shift applied to (value | 1): a precedence slip
set_shift_after_or(self, value, bit_position) ==
    [self |-> self, ret |-> Shl8(BitOr(value, 1), u8_from_BitPosition(bit_position))]

set(self, value, bit_position) ==
    [self |-> self, ret |-> BitOr(value, Shl8(1, u8_from_BitPosition(bit_position)))]

\* swap without the reset of the carry flag
swap_keeps_carry(self, value) ==
    LET new_value == BitOr(Shl8(BitAnd(value, 15), 4), Shr8(BitAnd(value, 240), 4)) IN
    [self |-> WithFlags(self, [self.registers.f EXCEPT
                  !.zero = (new_value = 0),
                  !.subtract = FALSE,
                  !.half_carry = FALSE]),
     ret |-> new_value]

swap(self, value) ==
    LET new_value == BitOr(Shl8(BitAnd(value, 15), 4), Shr8(BitAnd(value, 240), 4)) IN
    [self |-> WithFlags(self, [self.registers.f EXCEPT
                  !.zero = (new_value = 0),
                  !.subtract = FALSE,
                  !.half_carry = FALSE,
                  !.carry = FALSE]),
     ret |-> new_value]

\* Bit shift instructions

rl(self, value) ==
    LET carry == u8_from_bool(self.registers.f.carry)
        highest_bit == Shr8(BitAnd(value, 255), 7)
        new_value == BitOr(Shl8(BitAnd(value, 255), 1), carry)
    IN
    [self |-> WithFlags(self, [self.registers.f EXCEPT
                  !.zero = (new_value = 0),
                  !.subtract = FALSE,
                  !.half_carry = FALSE,
                  !.carry = (highest_bit = 1)]),
     ret |-> new_value]

\* rla without the reset of the zero flag
rla_keeps_zero_of_rl(self, value) ==
    LET r == rl(self, value) IN [self |-> r.self, ret |-> r.ret]

rla(self, value) ==
    LET r == rl(self, value) IN
    [self |-> WithFlags(r.self, [r.self.registers.f EXCEPT !.zero = FALSE]),
     ret |-> r.ret]

\* rlc with the incoming carry flag, not bit 7 of the value, shifted into bit 0
rlc_through_carry(self, value) ==
    LET carry == u8_from_bool(self.registers.f.carry)
        highest_bit == Shr8(BitAnd(value, 255), 7)
        new_value == BitOr(Shl8(BitAnd(value, 255), 1), carry)
    IN
    [self |-> WithFlags(self, [self.registers.f EXCEPT
                  !.zero = (new_value = 0),
                  !.subtract = FALSE,
                  !.half_carry = FALSE,
                  !.carry = (highest_bit = 1)]),
     ret |-> new_value]

rlc(self, value) ==
    LET highest_bit == Shr8(BitAnd(value, 255), 7)
        new_value == BitOr(Shl8(BitAnd(value, 255), 1), highest_bit)
    IN
    [self |-> WithFlags(self, [self.registers.f EXCEPT
                  !.zero = (new_value = 0),
                  !.subtract = FALSE,
                  !.half_carry = FALSE,
                  !.carry = (highest_bit = 1)]),
     ret |-> new_value]

rlca(self, value) ==
    LET r == rlc(self, value) IN
    [self |-> WithFlags(r.self, [r.self.registers.f EXCEPT !.zero = FALSE]),
     ret |-> r.ret]

\* rr with the incoming carry flag, not bit 0 of the value, shifted into bit 7
rr_through_carry(self, value) ==
    LET carry == u8_from_bool(self.registers.f.carry)
        lowest_bit == BitAnd(value, 1)
        new_value == BitOr(Shl8(carry, 7), Shr8(value, 1))
    IN
    [self |-> WithFlags(self, [self.registers.f EXCEPT
                  !.zero = (new_value = 0),
                  !.subtract = FALSE,
                  !.half_carry = FALSE,
                  !.carry = (lowest_bit = 1)]),
     ret |-> new_value]

rr(self, value) ==
    LET lowest_bit == BitAnd(value, 1)
        new_value == BitOr(Shl8(lowest_bit, 7), Shr8(value, 1))
    IN
    [self |-> WithFlags(self, [self.registers.f EXCEPT
                  !.zero = (new_value = 0),
                  !.subtract = FALSE,
                  !.half_carry = FALSE,
                  !.carry = (lowest_bit = 1)]),
     ret |-> new_value]

rra(self, value) ==
    LET r == rr(self, value) IN
    [self |-> WithFlags(r.self, [r.self.registers.f EXCEPT !.zero = FALSE]),
     ret |-> r.ret]

rrc(self, value) ==
    LET lowest_bit == BitAnd(value, 1)
        new_value == Shr8(value, 1)
    IN
    [self |-> WithFlags(self, [self.registers.f EXCEPT
                  !.zero = (new_value = 0),
                  !.subtract = FALSE,
                  !.half_carry = FALSE,
                  !.carry = (lowest_bit = 1)]),
     ret |-> new_value]

rrca(self, value) ==
    LET r == rrc(self, value) IN
    [self |-> WithFlags(r.self, [r.self.registers.f EXCEPT !.zero = FALSE]),
     ret |-> r.ret]

\* Misc instructions

ccf(self) ==
    [self |-> WithFlags(self, [self.registers.f EXCEPT
                  !.subtract = FALSE,
                  !.half_carry = FALSE,
                  !.carry = ~self.registers.f.carry]),
     ret |-> 0]

\* complement with the carry flag reset as well
complement_resets_carry(self, value) ==
    [self |-> WithFlags(self, [self.registers.f EXCEPT
                  !.subtract = TRUE,
                  !.half_carry = TRUE,
                  !.carry = FALSE]),
     ret |-> Not8(value)]

complement(self, value) ==
    [self |-> WithFlags(self, [self.registers.f EXCEPT
                  !.subtract = TRUE,
                  !.half_carry = TRUE]),
     ret |-> Not8(value)]

scf(self) ==
    [self |-> WithFlags(self, [self.registers.f EXCEPT
                  !.subtract = FALSE,
                  !.half_carry = FALSE,
                  !.carry = TRUE]),
     ret |-> 0]

----------------------------------------------------------------------------
(* The dispatch macros of cpu/mod.rs. $fn, $getter and $setter are         *)
(* identifiers in the macros and names (strings) here.                     *)

\* $self.$fn(value): the helper of that name, called
call_fn(self, fn, value) ==
    CASE fn = "add" -> add(self, value)
      [] fn = "adc" -> adc(self, value)
      [] fn = "and" -> and(self, value)
      [] fn = "compare" -> compare(self, value)
      [] fn = "dec" -> dec(self, value)
      [] fn = "inc" -> inc(self, value)
      [] fn = "or" -> or(self, value)
      [] fn = "sbc" -> sbc(self, value)
      [] fn = "sub" -> sub(self, value)
      [] fn = "xor" -> xor(self, value)
      [] fn = "inc_16bit" -> inc_16bit(self, value)
      [] fn = "dec_16bit" -> dec_16bit(self, value)
      [] fn = "swap" -> swap(self, value)
      [] fn = "rl" -> rl(self, value)
      [] fn = "rla" -> rla(self, value)
      [] fn = "rlc" -> rlc(self, value)
      [] fn = "rlca" -> rlca(self, value)
      [] fn = "rr" -> rr(self, value)
      [] fn = "rra" -> rra(self, value)
      [] fn = "rrc" -> rrc(self, value)
      [] fn = "rrca" -> rrca(self, value)
      [] fn = "complement" -> complement(self, value)

\* $self.$fn(value, $arg): the helper of that name, called
call_fn_at(self, fn, value, arg) ==
    CASE fn = "bit" -> bit(self, value, arg)
      [] fn = "set" -> set(self, value, arg)

\* operate_8bit_register!(getter => self.fn)
operate_8bit_register_call(self, getter, fn) ==
    call_fn(self, fn, self.registers[getter]).self

\* operate_8bit_register!(getter => self.fn => setter)
operate_8bit_register_store(self, getter, fn, setter) ==
    LET r == call_fn(self, fn, self.registers[getter]) IN
    [r.self EXCEPT !.registers[setter] = r.ret]

\* operate_8bit_register!(getter => self.fn @ arg)
operate_8bit_register_call_at(self, getter, fn, arg) ==
    call_fn_at(self, fn, self.registers[getter], arg).self

\* operate_8bit_register!(getter => (self.fn @ arg) => setter)
operate_8bit_register_store_at(self, getter, fn, arg, setter) ==
    LET r == call_fn_at(self, fn, self.registers[getter], arg) IN
    [r.self EXCEPT !.registers[setter] = r.ret]

\* operate_16bit_register!(get_xx => self.fn => set_xx), xx the register pair
operate_16bit_register(self, pair, fn) ==
    LET register == CASE pair = "bc" -> get_bc(self.registers)
                      [] pair = "de" -> get_de(self.registers)
                      [] pair = "hl" -> get_hl(self.registers)
        r == call_fn(self, fn, register)
    IN
    [r.self EXCEPT !.registers =
        CASE pair = "bc" -> set_bc(r.self.registers, r.ret)
          [] pair = "de" -> set_de(r.self.registers, r.ret)
          [] pair = "hl" -> set_hl(r.self.registers, r.ret)]

\* an arm that ran to its end, and an arm that is todo!() (a panic: the call
\* never returns, the CPU is as it was when the arm was reached)
returned(self) == [cpu |-> self, outcome |-> "returned"]
todo(self) == [cpu |-> self, outcome |-> "unimplemented"]

\* perform_arithmetic!(register, self.fn)
perform_arithmetic(self, register, fn) ==
    CASE register = "A" -> returned(operate_8bit_register_call(self, "a", fn))
      [] register = "B" -> returned(operate_8bit_register_call(self, "b", fn))
      [] register = "C" -> returned(operate_8bit_register_call(self, "c", fn))
      [] register = "D" -> returned(operate_8bit_register_call(self, "d", fn))
      [] register = "E" -> returned(operate_8bit_register_call(self, "e", fn))
      [] register = "H" -> returned(operate_8bit_register_call(self, "h", fn))
      [] register = "L" -> returned(operate_8bit_register_call(self, "l", fn))
      [] register = "HLI" -> todo(self)

\* perform_arithmetic!(register, self.fn => a)
perform_arithmetic_a(self, register, fn) ==
    CASE register = "A" -> returned(operate_8bit_register_store(self, "a", fn, "a"))
      [] register = "B" -> returned(operate_8bit_register_store(self, "b", fn, "a"))
      [] register = "C" -> returned(operate_8bit_register_store(self, "c", fn, "a"))
      [] register = "D" -> returned(operate_8bit_register_store(self, "d", fn, "a"))
      [] register = "E" -> returned(operate_8bit_register_store(self, "e", fn, "a"))
      [] register = "H" -> returned(operate_8bit_register_store(self, "h", fn, "a"))
      [] register = "L" -> returned(operate_8bit_register_store(self, "l", fn, "a"))
      [] register = "HLI" -> todo(self)

\* prefix_instruction!(target, self.fn @ bit_position)
prefix_instruction_at(self, target, fn, bit_position) ==
    CASE target = "A" -> returned(operate_8bit_register_call_at(self, "a", fn, bit_position))
      [] target = "B" -> returned(operate_8bit_register_call_at(self, "b", fn, bit_position))
      [] target = "C" -> returned(operate_8bit_register_call_at(self, "c", fn, bit_position))
      [] target = "D" -> returned(operate_8bit_register_call_at(self, "d", fn, bit_position))
      [] target = "E" -> returned(operate_8bit_register_call_at(self, "e", fn, bit_position))
      [] target = "H" -> returned(operate_8bit_register_call_at(self, "h", fn, bit_position))
      [] target = "L" -> returned(operate_8bit_register_call_at(self, "l", fn, bit_position))
      [] target = "HLI" -> todo(self)

\* prefix_instruction!(target, (self.fn @ bit_position) => register)
prefix_instruction_at_register(self, target, fn, bit_position) ==
    CASE target = "A" -> returned(operate_8bit_register_store_at(self, "a", fn, bit_position, "a"))
      [] target = "B" -> returned(operate_8bit_register_store_at(self, "b", fn, bit_position, "b"))
      [] target = "C" -> returned(operate_8bit_register_store_at(self, "c", fn, bit_position, "c"))
      [] target = "D" -> returned(operate_8bit_register_store_at(self, "d", fn, bit_position, "d"))
      [] target = "E" -> returned(operate_8bit_register_store_at(self, "e", fn, bit_position, "e"))
      [] target = "H" -> returned(operate_8bit_register_store_at(self, "h", fn, bit_position, "h"))
      [] target = "L" -> returned(operate_8bit_register_store_at(self, "l", fn, bit_position, "l"))
      [] target = "HLI" -> todo(self)

\* prefix_instruction!(target, self.fn => register)
prefix_instruction_register(self, target, fn) ==
    CASE target = "A" -> returned(operate_8bit_register_store(self, "a", fn, "a"))
      [] target = "B" -> returned(operate_8bit_register_store(self, "b", fn, "b"))
      [] target = "C" -> returned(operate_8bit_register_store(self, "c", fn, "c"))
      [] target = "D" -> returned(operate_8bit_register_store(self, "d", fn, "d"))
      [] target = "E" -> returned(operate_8bit_register_store(self, "e", fn, "e"))
      [] target = "H" -> returned(operate_8bit_register_store(self, "h", fn, "h"))
      [] target = "L" -> returned(operate_8bit_register_store(self, "l", fn, "l"))
      [] target = "HLI" -> todo(self)

----------------------------------------------------------------------------
(* CPU::execute_instruction: one operator per arm of the match, and the    *)
(* match itself.                                                           *)

\* Instruction::DEC(register)
execute_DEC(self, register) ==
    CASE register = "A" -> returned(operate_8bit_register_store(self, "a", "dec", "a"))
      [] register = "B" -> returned(operate_8bit_register_store(self, "b", "dec", "b"))
      [] register = "C" -> returned(operate_8bit_register_store(self, "c", "dec", "c"))
      [] register = "D" -> returned(operate_8bit_register_store(self, "d", "dec", "d"))
      [] register = "E" -> returned(operate_8bit_register_store(self, "e", "dec", "e"))
      [] register = "H" -> returned(operate_8bit_register_store(self, "h", "dec", "h"))
      [] register = "L" -> returned(operate_8bit_register_store(self, "l", "dec", "l"))
      [] register = "BC" -> returned(operate_16bit_register(self, "bc", "dec_16bit"))
      [] register = "DE" -> returned(operate_16bit_register(self, "de", "dec_16bit"))
      [] register = "HL" -> returned(operate_16bit_register(self, "hl", "dec_16bit"))
      [] register = "HLI" -> todo(self)
      [] register = "SP" -> todo(self)

\* the INC arm with the SP target implemented: it increments the stack pointer
execute_INC_sp_implemented(self, register) ==
    CASE register = "A" -> returned(operate_8bit_register_store(self, "a", "inc", "a"))
      [] register = "B" -> returned(operate_8bit_register_store(self, "b", "inc", "b"))
      [] register = "C" -> returned(operate_8bit_register_store(self, "c", "inc", "c"))
      [] register = "D" -> returned(operate_8bit_register_store(self, "d", "inc", "d"))
      [] register = "E" -> returned(operate_8bit_register_store(self, "e", "inc", "e"))
      [] register = "H" -> returned(operate_8bit_register_store(self, "h", "inc", "h"))
      [] register = "L" -> returned(operate_8bit_register_store(self, "l", "inc", "l"))
      [] register = "BC" -> returned(operate_16bit_register(self, "bc", "inc_16bit"))
      [] register = "DE" -> returned(operate_16bit_register(self, "de", "inc_16bit"))
      [] register = "HL" -> returned(operate_16bit_register(self, "hl", "inc_16bit"))
      [] register = "HLI" -> todo(self)
      [] register = "SP" -> returned([self EXCEPT !.sp = wrapping_add16(self.sp, 1)])

\* Instruction::INC(register)
execute_INC(self, register) ==
    CASE register = "A" -> returned(operate_8bit_register_store(self, "a", "inc", "a"))
      [] register = "B" -> returned(operate_8bit_register_store(self, "b", "inc", "b"))
      [] register = "C" -> returned(operate_8bit_register_store(self, "c", "inc", "c"))
      [] register = "D" -> returned(operate_8bit_register_store(self, "d", "inc", "d"))
      [] register = "E" -> returned(operate_8bit_register_store(self, "e", "inc", "e"))
      [] register = "H" -> returned(operate_8bit_register_store(self, "h", "inc", "h"))
      [] register = "L" -> returned(operate_8bit_register_store(self, "l", "inc", "l"))
      [] register = "BC" -> returned(operate_16bit_register(self, "bc", "inc_16bit"))
      [] register = "DE" -> returned(operate_16bit_register(self, "de", "inc_16bit"))
      [] register = "HL" -> returned(operate_16bit_register(self, "hl", "inc_16bit"))
      [] register = "HLI" -> todo(self)
      [] register = "SP" -> todo(self)

\* Instruction::ADDHL(register)
execute_ADDHL(self, register) ==
    IF register = "SP" THEN todo(self)
    ELSE
        LET value == CASE register = "BC" -> get_bc(self.registers)
                       [] register = "DE" -> get_de(self.registers)
                       [] register = "HL" -> get_hl(self.registers)
            r == add_hl(self, value)
        IN returned([r.self EXCEPT !.registers = set_hl(r.self.registers, r.ret)])

\* the LD arm with HLI taken for the register l on both sides
execute_LD_hli_as_l(self, load_type) ==
    LET target == load_type.f0
        source == load_type.f1
        source_value == CASE source = "A" -> self.registers.a
                          [] source = "B" -> self.registers.b
                          [] source = "C" -> self.registers.c
                          [] source = "D" -> self.registers.d
                          [] source = "E" -> self.registers.e
                          [] source = "H" -> self.registers.h
                          [] source = "L" -> self.registers.l
                          [] source = "HLI" -> self.registers.l
    IN
    CASE target = "A" -> returned([self EXCEPT !.registers.a = source_value])
      [] target = "B" -> returned([self EXCEPT !.registers.b = source_value])
      [] target = "C" -> returned([self EXCEPT !.registers.c = source_value])
      [] target = "D" -> returned([self EXCEPT !.registers.d = source_value])
      [] target = "E" -> returned([self EXCEPT !.registers.e = source_value])
      [] target = "H" -> returned([self EXCEPT !.registers.h = source_value])
      [] target = "L" -> returned([self EXCEPT !.registers.l = source_value])
      [] target = "HLI" -> returned([self EXCEPT !.registers.l = source_value])

\* Instruction::LD(load_type): the pattern LoadType::BYTE(target, source) binds
\* the variant's first field to `target` and its second field to `source`
execute_LD(self, load_type) ==
    LET target == load_type.f0
        source == load_type.f1
    IN
    IF source = "HLI" THEN todo(self)
    ELSE
        LET source_value == CASE source = "A" -> self.registers.a
                              [] source = "B" -> self.registers.b
                              [] source = "C" -> self.registers.c
                              [] source = "D" -> self.registers.d
                              [] source = "E" -> self.registers.e
                              [] source = "H" -> self.registers.h
                              [] source = "L" -> self.registers.l
        IN
        CASE target = "A" -> returned([self EXCEPT !.registers.a = source_value])
          [] target = "B" -> returned([self EXCEPT !.registers.b = source_value])
          [] target = "C" -> returned([self EXCEPT !.registers.c = source_value])
          [] target = "D" -> returned([self EXCEPT !.registers.d = source_value])
          [] target = "E" -> returned([self EXCEPT !.registers.e = source_value])
          [] target = "H" -> returned([self EXCEPT !.registers.h = source_value])
          [] target = "L" -> returned([self EXCEPT !.registers.l = source_value])
          [] target = "HLI" -> todo(self)

\* the arms that are one macro use or one call
execute_ADD(self, register) == perform_arithmetic_a(self, register, "add")
execute_ADC(self, register) == perform_arithmetic_a(self, register, "adc")
execute_AND(self, register) == perform_arithmetic_a(self, register, "and")
execute_BIT(self, target, bit_position) == prefix_instruction_at(self, target, "bit", bit_position)
execute_CP(self, register) == perform_arithmetic(self, register, "compare")
execute_OR(self, register) == perform_arithmetic_a(self, register, "or")
execute_SBC(self, register) == perform_arithmetic_a(self, register, "sbc")
execute_SET(self, target, bit_position) == prefix_instruction_at_register(self, target, "set", bit_position)
execute_SUB(self, register) == perform_arithmetic_a(self, register, "sub")
execute_XOR(self, register) == perform_arithmetic_a(self, register, "xor")
execute_CCF(self) == returned(ccf(self).self)
execute_CPL(self) == returned(operate_8bit_register_store(self, "a", "complement", "a"))
execute_SCF(self) == returned(scf(self).self)
execute_SWAP(self, target) == prefix_instruction_register(self, target, "swap")
execute_RL(self, target) == prefix_instruction_register(self, target, "rl")
execute_RLA(self) == returned(operate_8bit_register_store(self, "a", "rla", "a"))
execute_RLC(self, target) == prefix_instruction_register(self, target, "rlc")
execute_RLCA(self) == returned(operate_8bit_register_store(self, "a", "rlca", "a"))
execute_RR(self, target) == prefix_instruction_register(self, target, "rr")
execute_RRA(self) == returned(operate_8bit_register_store(self, "a", "rra", "a"))
execute_RRC(self, target) == prefix_instruction_register(self, target, "rrc")
execute_RRCA(self) == returned(operate_8bit_register_store(self, "a", "rrca", "a"))

execute_instruction(self, instruction) ==
    LET op == instruction.op IN
    CASE op = "ADD" -> execute_ADD(self, instruction.target)
      [] op = "ADC" -> execute_ADC(self, instruction.target)
      [] op = "AND" -> execute_AND(self, instruction.target)
      [] op = "BIT" -> execute_BIT(self, instruction.target, instruction.bit_position)
      [] op = "CP" -> execute_CP(self, instruction.target)
      [] op = "DEC" -> execute_DEC(self, instruction.target)
      [] op = "INC" -> execute_INC(self, instruction.target)
      [] op = "OR" -> execute_OR(self, instruction.target)
      [] op = "SBC" -> execute_SBC(self, instruction.target)
      [] op = "SET" -> execute_SET(self, instruction.target, instruction.bit_position)
      [] op = "SUB" -> execute_SUB(self, instruction.target)
      [] op = "XOR" -> execute_XOR(self, instruction.target)
      [] op = "ADDHL" -> execute_ADDHL(self, instruction.target)
      [] op = "CCF" -> execute_CCF(self)
      [] op = "CPL" -> execute_CPL(self)
      [] op = "SCF" -> execute_SCF(self)
      [] op = "SWAP" -> execute_SWAP(self, instruction.target)
      [] op = "RL" -> execute_RL(self, instruction.target)
      [] op = "RLA" -> execute_RLA(self)
      [] op = "RLC" -> execute_RLC(self, instruction.target)
      [] op = "RLCA" -> execute_RLCA(self)
      [] op = "RR" -> execute_RR(self, instruction.target)
      [] op = "RRA" -> execute_RRA(self)
      [] op = "RRC" -> execute_RRC(self, instruction.target)
      [] op = "RRCA" -> execute_RRCA(self)
      [] op = "LD" -> execute_LD(self, instruction.load_type)

----------------------------------------------------------------------------
(* State machine. A call of execute_instruction is one step: the CPU       *)
(* becomes what the call leaves, status what became of the call, and the   *)
(* call is appended to the history with the CPU it was made on.            *)

Finish(instruction, r) ==
    /\ cpu' = r.cpu
    /\ status' = r.outcome
    /\ calls' = Append(calls, [instruction |-> instruction, before |-> cpu])

\* one action per Instruction variant: the call of it on a CPU not yet called,
\* which runs the variant's arm of the match
ADD(register) == status = "ready" /\ Finish([op |-> "ADD", target |-> register], execute_ADD(cpu, register))
ADC(register) == status = "ready" /\ Finish([op |-> "ADC", target |-> register], execute_ADC(cpu, register))
AND(register) == status = "ready" /\ Finish([op |-> "AND", target |-> register], execute_AND(cpu, register))
CP(register) == status = "ready" /\ Finish([op |-> "CP", target |-> register], execute_CP(cpu, register))
DEC(register) == status = "ready" /\ Finish([op |-> "DEC", target |-> register], execute_DEC(cpu, register))
INC(register) == status = "ready" /\ Finish([op |-> "INC", target |-> register], execute_INC(cpu, register))
OR(register) == status = "ready" /\ Finish([op |-> "OR", target |-> register], execute_OR(cpu, register))
SBC(register) == status = "ready" /\ Finish([op |-> "SBC", target |-> register], execute_SBC(cpu, register))
SUB(register) == status = "ready" /\ Finish([op |-> "SUB", target |-> register], execute_SUB(cpu, register))
XOR(register) == status = "ready" /\ Finish([op |-> "XOR", target |-> register], execute_XOR(cpu, register))
ADDHL(register) == status = "ready" /\ Finish([op |-> "ADDHL", target |-> register], execute_ADDHL(cpu, register))
BIT(target, bit_position) == status = "ready" /\ Finish([op |-> "BIT", target |-> target, bit_position |-> bit_position], execute_BIT(cpu, target, bit_position))
SET(target, bit_position) == status = "ready" /\ Finish([op |-> "SET", target |-> target, bit_position |-> bit_position], execute_SET(cpu, target, bit_position))
SWAP(target) == status = "ready" /\ Finish([op |-> "SWAP", target |-> target], execute_SWAP(cpu, target))
RL(target) == status = "ready" /\ Finish([op |-> "RL", target |-> target], execute_RL(cpu, target))
RLA == status = "ready" /\ Finish([op |-> "RLA"], execute_RLA(cpu))
RLC(target) == status = "ready" /\ Finish([op |-> "RLC", target |-> target], execute_RLC(cpu, target))
RLCA == status = "ready" /\ Finish([op |-> "RLCA"], execute_RLCA(cpu))
RR(target) == status = "ready" /\ Finish([op |-> "RR", target |-> target], execute_RR(cpu, target))
RRA == status = "ready" /\ Finish([op |-> "RRA"], execute_RRA(cpu))
RRC(target) == status = "ready" /\ Finish([op |-> "RRC", target |-> target], execute_RRC(cpu, target))
RRCA == status = "ready" /\ Finish([op |-> "RRCA"], execute_RRCA(cpu))
LD(load_type) == status = "ready" /\ Finish([op |-> "LD", load_type |-> load_type], execute_LD(cpu, load_type))
CCF == status = "ready" /\ Finish([op |-> "CCF"], execute_CCF(cpu))
CPL == status = "ready" /\ Finish([op |-> "CPL"], execute_CPL(cpu))
SCF == status = "ready" /\ Finish([op |-> "SCF"], execute_SCF(cpu))

\* the register contents and flags the calls are made on
InitA == {0, 1, 15, 128, 255}
InitB == {4, 255}
InitC == {0, 1}
InitD == {8, 240}
InitE == {0, 165}
InitH == {4, 7, 255}
InitL == {0, 255}
InitFlags ==
    {[zero |-> z, subtract |-> z, half_carry |-> z, carry |-> c] : z \in BOOLEAN, c \in BOOLEAN}

InitRegisters ==
    [a : InitA, b : InitB, c : InitC, d : InitD, e : InitE, h : InitH, l : InitL, f : InitFlags]

\* the cartridge image the CPU is constructed with: 0x8000 zero bytes
InitRom == <<[n |-> BANK_0_SIZE + BANK_N_SIZE, v |-> 0]>>

Init ==
    /\ \E registers \in InitRegisters :
           cpu = [CPU_new("None", InitRom).cpu EXCEPT !.registers = registers]
    /\ status = "ready"
    /\ calls = <<>>

Next ==
    \/ \E register \in ArithmeticTarget : ADD(register)
    \/ \E register \in ArithmeticTarget : ADC(register)
    \/ \E register \in ArithmeticTarget : AND(register)
    \/ \E register \in ArithmeticTarget : CP(register)
    \/ \E register \in IncDecTarget : DEC(register)
    \/ \E register \in IncDecTarget : INC(register)
    \/ \E register \in ArithmeticTarget : OR(register)
    \/ \E register \in ArithmeticTarget : SBC(register)
    \/ \E register \in ArithmeticTarget : SUB(register)
    \/ \E register \in ArithmeticTarget : XOR(register)
    \/ \E register \in ADDHLTarget : ADDHL(register)
    \/ \E target \in PrefixTarget, bit_position \in BitPosition : BIT(target, bit_position)
    \/ \E target \in PrefixTarget, bit_position \in BitPosition : SET(target, bit_position)
    \/ \E target \in PrefixTarget : SWAP(target)
    \/ \E target \in PrefixTarget : RL(target)
    \/ RLA
    \/ \E target \in PrefixTarget : RLC(target)
    \/ RLCA
    \/ \E target \in PrefixTarget : RR(target)
    \/ RRA
    \/ \E target \in PrefixTarget : RRC(target)
    \/ RRCA
    \/ \E load_type \in LoadType : LD(load_type)
    \/ CCF
    \/ CPL
    \/ SCF

Spec == Init /\ [][Next]_vars

\* Sequences of INC and DEC calls on one CPU: the first call as in Spec, then
\* further calls while the previous one returned, MaxCalls calls at most.
MaxCalls == 2

INC_again(register) ==
    /\ status = "returned"
    /\ Len(calls) < MaxCalls
    /\ Finish([op |-> "INC", target |-> register], execute_INC(cpu, register))

DEC_again(register) ==
    /\ status = "returned"
    /\ Len(calls) < MaxCalls
    /\ Finish([op |-> "DEC", target |-> register], execute_DEC(cpu, register))

\* register contents at and next to the ends of the 8-bit and 16-bit ranges
InitHigh == {0, 15, 255}
InitLow == {0, 1, 255}

InitIncDec ==
    /\ \E high \in InitHigh, low \in InitLow, f \in InitFlags :
           cpu = [CPU_new("None", InitRom).cpu EXCEPT !.registers =
                     [a |-> high, b |-> high, c |-> low, d |-> high, e |-> low,
                      h |-> high, l |-> low, f |-> f]]
    /\ status = "ready"
    /\ calls = <<>>

NextIncDec ==
    \/ \E register \in IncDecTarget : INC(register)
    \/ \E register \in IncDecTarget : DEC(register)
    \/ \E register \in IncDecTarget : INC_again(register)
    \/ \E register \in IncDecTarget : DEC_again(register)

SpecIncDec == InitIncDec /\ [][NextIncDec]_vars

\* Construction and the memory operations. Before CPU::new has been called
\* there is no CPU; the call yields one or is fatal, and one operation of the
\* constructed CPU's memory is then called. A call is appended to the history
\* as in Finish, with the value it returned if it returns one.
Unconstructed == [constructed |-> FALSE]

\* CPU::new(None, rom), as main calls it
new(rom) ==
    /\ status = "unconstructed"
    /\ LET r == CPU_new("None", rom) IN
           /\ cpu' = IF r.outcome = "ok" THEN r.cpu ELSE cpu
           /\ status' = IF r.outcome = "ok" THEN "ready" ELSE "fatal"
    /\ calls' = Append(calls, [instruction |-> [op |-> "new", rom |-> rom], before |-> cpu])

\* cpu.memory.read_byte(address)
read_byte(address) ==
    /\ status = "ready"
    /\ LET r == Memory_read_byte(cpu.memory, address) IN
           /\ status' = IF r.outcome = "ok" THEN "returned" ELSE "fatal"
           /\ calls' = Append(calls, [instruction |-> [op |-> "read_byte", address |-> address],
                                      before |-> cpu,
                                      ret |-> IF r.outcome = "ok" THEN <<r.ret>> ELSE <<>>])
    /\ cpu' = cpu

\* cpu.memory.verify_logo(), as run calls it
verify_logo ==
    /\ status = "ready"
    /\ status' = IF Memory_verify_logo(cpu.memory).outcome = "ok" THEN "returned" ELSE "fatal"
    /\ calls' = Append(calls, [instruction |-> [op |-> "verify_logo"], before |-> cpu])
    /\ cpu' = cpu

\* cartridge images: n bytes of value v
Blank(n, v) == <<[n |-> n, v |-> v]>>

\* a sequence of bytes as an array, one run a byte
RECURSIVE Bytes(_)
Bytes(seq) == IF seq = <<>> THEN <<>> ELSE <<[n |-> 1, v |-> Head(seq)]>> \o Bytes(Tail(seq))

\* an image of 0x8000 bytes, zero but for the 48 header bytes at 0x0104
WithHeader(header) ==
    Blank(260, 0) \o Bytes(header) \o Blank(BANK_0_SIZE + BANK_N_SIZE - 260 - Len(header), 0)

\* the official logo with one position overwritten, and in reverse order
Overwritten(position, byte) == [Memory_official_logo EXCEPT ![position] = byte]
Reversed == [i \in 1..Len(Memory_official_logo) |->
                Memory_official_logo[Len(Memory_official_logo) + 1 - i]]

InitHeaders ==
    {Memory_official_logo, Reversed}
        \cup {Overwritten(position, byte) : position \in 1..Len(Memory_official_logo),
                                            byte \in {206, 255}}

\* images of every length class (empty, short, exact, one too long, as long as
\* the bus), blank or with a header
InitRoms ==
    {Blank(n, v) : n \in {0, 1, 308, BANK_0_SIZE + BANK_N_SIZE - 1, BANK_0_SIZE + BANK_N_SIZE,
                          BANK_0_SIZE + BANK_N_SIZE + 1, BUS_LEN},
                   v \in {0, 170}}
        \cup {WithHeader(header) : header \in InitHeaders}
        \cup {WithHeader(Memory_official_logo) \o Blank(1, 0)}
        \cup {Take(WithHeader(Memory_official_logo), 308)}

\* addresses at the ends of the header, of the cartridge window and of the
\* 16-bit address space
InitAddresses == {0, 259, 260, 307, 308, BANK_N_END, BANK_N_END + 1, BUS_LEN - 1, BUS_LEN}

InitMemory ==
    /\ cpu = Unconstructed
    /\ status = "unconstructed"
    /\ calls = <<>>

NextMemory ==
    \/ \E rom \in InitRoms : new(rom)
    \/ \E address \in InitAddresses : read_byte(address)
    \/ verify_logo

SpecMemory == InitMemory /\ [][NextMemory]_vars

\* Sequences of execute_instruction calls of any variant on one constructed
\* CPU: a further call is made while the previous one returned, MaxCalls calls
\* at most. The operands are a sample of each enumeration.
SequenceOperands == {"A", "C", "HLI", "BC", "HL", "SP"}
SequencePositions == {"B0", "B7"}

SequenceInstructions ==
    {i \in Instruction :
        CASE i.op = "LD" -> i.load_type.f0 \in SequenceOperands /\ i.load_type.f1 \in SequenceOperands
          [] i.op \in {"BIT", "SET"} -> i.target \in SequenceOperands /\ i.bit_position \in SequencePositions
          [] i.op \in {"RLA", "RLCA", "RRA", "RRCA", "CCF", "CPL", "SCF"} -> TRUE
          [] OTHER -> i.target \in SequenceOperands}

execute(instruction) ==
    /\ status \in {"ready", "returned"}
    /\ Len(calls) < MaxCalls
    /\ Finish(instruction, execute_instruction(cpu, instruction))

\* the CPU as CPU::new leaves it, constructed with an image that carries the logo
InitSequence ==
    /\ cpu = CPU_new("None", WithHeader(Memory_official_logo)).cpu
    /\ status = "ready"
    /\ calls = <<>>

NextSequence == \E instruction \in SequenceInstructions : execute(instruction)

SpecSequence == InitSequence /\ [][NextSequence]_vars

----------------------------------------------------------------------------
(* Properties. Called: a call has been made; Last: the latest call, with   *)
(* the CPU it was made on in Last.before.                                  *)

Called == calls # <<>>
Last == calls[Len(calls)]

\* the register an 8-bit target names
RegisterOf(target) ==
    CASE target = "A" -> "a"
      [] target = "B" -> "b"
      [] target = "C" -> "c"
      [] target = "D" -> "d"
      [] target = "E" -> "e"
      [] target = "H" -> "h"
      [] target = "L" -> "l"

EightBitTargets == {"A", "B", "C", "D", "E", "H", "L"}
ArithmeticOps == {"ADD", "ADC", "AND", "CP", "OR", "SBC", "SUB", "XOR"}
PrefixOps == {"BIT", "SET", "SWAP", "RL", "RLC", "RR", "RRC"}

\* every 8-bit register except those named holds what it held before the call
OthersUnchanged(written) ==
    \A r \in RegisterNames \ written : cpu.registers[r] = Last.before.registers[r]

UnimplementedOperand(i) ==
    \/ i.op \in ArithmeticOps /\ i.target = "HLI"
    \/ i.op \in PrefixOps /\ i.target = "HLI"
    \/ i.op \in {"INC", "DEC"} /\ i.target \in {"HLI", "SP"}
    \/ i.op = "ADDHL" /\ i.target = "SP"
    \/ i.op = "LD" /\ (i.load_type.f0 = "HLI" \/ i.load_type.f1 = "HLI")

\* C1: a call whose operand is an unimplemented addressing arm (HLI of the
\* arithmetic and prefix instructions, HLI or SP of INC/DEC, SP of ADDHL, HLI
\* as either operand of LD BYTE) ends in the fatal "unimplemented" outcome, and
\* registers, flags, pc, sp and memory are all as they were before the call.
C1_UnimplementedOperandIsFatal ==
    (Called /\ UnimplementedOperand(Last.instruction))
        => (status = "unimplemented" /\ cpu = Last.before)

\* C1 witness: LD BYTE with HLI as one operand and a register as the other has
\* been called, on a CPU whose registers differ, and ended unimplemented.
C1_Witness ==
    /\ Called
    /\ Last.instruction.op = "LD"
    /\ Last.instruction.load_type = [kind |-> "BYTE", f0 |-> "A", f1 |-> "HLI"]
    /\ Last.before.registers.a # Last.before.registers.l
    /\ status = "unimplemented"

\* C2 as claimed: LD(BYTE(LoadByteSource::s, LoadByteTarget::t)) copies register
\* s into register t; s, every other register and the flags are unchanged.
C2_LoadCopiesSourceIntoTarget ==
    (/\ Called
     /\ Last.instruction.op = "LD"
     /\ Last.instruction.load_type.f0 \in EightBitTargets
     /\ Last.instruction.load_type.f1 \in EightBitTargets)
        => LET s == RegisterOf(Last.instruction.load_type.f0)
               t == RegisterOf(Last.instruction.load_type.f1)
           IN /\ status = "returned"
              /\ cpu.registers[t] = Last.before.registers[s]
              /\ OthersUnchanged({t})
              /\ cpu.registers.f = Last.before.registers.f

\* C3: ADD / ADC of operand x (carry_in the carry flag for ADC, 0 for ADD) leave
\* a = (A+x+carry_in) mod 256, zero = (result = 0), subtract false, half_carry =
\* ((A mod 16)+(x mod 16)+carry_in > 15), carry = (A+x+carry_in > 255), and no
\* register other than a changed.
C3_AddAdc ==
    (/\ Called
     /\ Last.instruction.op \in {"ADD", "ADC"}
     /\ Last.instruction.target \in EightBitTargets)
        => LET A == Last.before.registers.a
               x == Last.before.registers[RegisterOf(Last.instruction.target)]
               carry_in == IF Last.instruction.op = "ADC" /\ Last.before.registers.f.carry
                           THEN 1 ELSE 0
               result == (A + x + carry_in) % 256
           IN /\ status = "returned"
              /\ cpu.registers.a = result
              /\ cpu.registers.f.zero = (result = 0)
              /\ cpu.registers.f.subtract = FALSE
              /\ cpu.registers.f.half_carry = ((A % 16) + (x % 16) + carry_in > 15)
              /\ cpu.registers.f.carry = (A + x + carry_in > 255)
              /\ OthersUnchanged({"a"})

\* C3 witness: ADD(C) called with a = 0xFF, c = 0x01 left a = 0 with zero,
\* half_carry and carry all true.
C3_Witness ==
    /\ Called
    /\ Last.instruction = [op |-> "ADD", target |-> "C"]
    /\ Last.before.registers.a = 255
    /\ Last.before.registers.c = 1
    /\ cpu.registers.a = 0
    /\ cpu.registers.f.zero
    /\ cpu.registers.f.half_carry
    /\ cpu.registers.f.carry

\* the flags SUB(x) and CP(x) are both claimed to set
SubtractFlags(A, x) ==
    [zero |-> ((A - x + 256) % 256 = 0),
     subtract |-> TRUE,
     half_carry |-> ((x % 16) > (A % 16)),
     carry |-> (x > A)]

C5_Sbc ==
    (/\ Called
     /\ Last.instruction.op = "SBC"
     /\ Last.instruction.target \in EightBitTargets)
        => LET A == Last.before.registers.a
               x == Last.before.registers[RegisterOf(Last.instruction.target)]
               carry_in == IF Last.before.registers.f.carry THEN 1 ELSE 0
               result == (A - x - carry_in + 512) % 256
           IN /\ status = "returned"
              /\ cpu.registers.a = result
              /\ cpu.registers.f.zero = (result = 0)
              /\ cpu.registers.f.subtract = TRUE
              /\ cpu.registers.f.half_carry = ((x % 16) + carry_in > (A % 16))
              /\ cpu.registers.f.carry = (x + carry_in > A)

\* C5 witness: SBC(A) called with the carry flag set: the subtraction of x does
\* not underflow, the subtraction of carry_in does; a = 0xFF and carry is set.
C5_Witness ==
    /\ Called
    /\ Last.instruction = [op |-> "SBC", target |-> "A"]
    /\ Last.before.registers.f.carry
    /\ cpu.registers.a = 255
    /\ cpu.registers.f.carry
    /\ cpu.registers.f.half_carry

\* the 16-bit operand ADDHL(target) reads, from the registers before the call
PairValue(registers, target) ==
    CASE target = "BC" -> registers.b * 256 + registers.c
      [] target = "DE" -> registers.d * 256 + registers.e
      [] target = "HL" -> registers.h * 256 + registers.l

\* C6: ADDHL of x read from BC, DE or HL stores (HL+x) mod 65536 in HL, sets
\* subtract false, carry = (HL+x > 0xFFFF), half_carry = ((x mod 0x800) +
\* (HL mod 0x800) > 0x7FF), keeps the zero flag, and leaves a, b, c, d, e alone.
C6_AddHl ==
    (/\ Called
     /\ Last.instruction.op = "ADDHL"
     /\ Last.instruction.target \in {"BC", "DE", "HL"})
        => LET HL == Last.before.registers.h * 256 + Last.before.registers.l
               x == PairValue(Last.before.registers, Last.instruction.target)
           IN /\ status = "returned"
              /\ cpu.registers.h * 256 + cpu.registers.l = (HL + x) % 65536
              /\ cpu.registers.h \in 0..255
              /\ cpu.registers.l \in 0..255
              /\ cpu.registers.f.subtract = FALSE
              /\ cpu.registers.f.carry = (HL + x > 65535)
              /\ cpu.registers.f.half_carry = ((x % 2048) + (HL % 2048) > 2047)
              /\ cpu.registers.f.zero = Last.before.registers.f.zero
              /\ OthersUnchanged({"h", "l"})

\* C6 witness: ADDHL(HL) called with HL = 0x0400 and the zero flag set left
\* HL = 0x0800 with half_carry true, carry false and zero still set.
C6_Witness ==
    /\ Called
    /\ Last.instruction = [op |-> "ADDHL", target |-> "HL"]
    /\ Last.before.registers.h = 4
    /\ Last.before.registers.l = 0
    /\ Last.before.registers.f.zero
    /\ cpu.registers.h = 8
    /\ cpu.registers.l = 0
    /\ cpu.registers.f.half_carry
    /\ ~cpu.registers.f.carry
    /\ cpu.registers.f.zero

\* C7 as claimed: after ADDHL(x) half_carry is the carry out of bit 11 (bits
\* numbered from 0): true exactly when (HL mod 0x1000) + (x mod 0x1000) > 0xFFF.
C7_HalfCarryOutOfBit11 ==
    (/\ Called
     /\ Last.instruction.op = "ADDHL"
     /\ Last.instruction.target \in {"BC", "DE", "HL"})
        => LET HL == Last.before.registers.h * 256 + Last.before.registers.l
               x == PairValue(Last.before.registers, Last.instruction.target)
           IN cpu.registers.f.half_carry = ((HL % 4096) + (x % 4096) > 4095)

\* the instruction on a PrefixTarget that RLA, RLCA, RRA, RRCA are compared with
PrefixFormOf(op) ==
    CASE op = "RLA" -> [op |-> "RL", target |-> "A"]
      [] op = "RLCA" -> [op |-> "RLC", target |-> "A"]
      [] op = "RRA" -> [op |-> "RR", target |-> "A"]
      [] op = "RRCA" -> [op |-> "RRC", target |-> "A"]

\* C8: after RLA, RLCA, RRA or RRCA the zero flag is false, also when a is 0;
\* a and the subtract, half_carry and carry flags are those RL(A), RLC(A),
\* RR(A), RRC(A) leave on the same CPU; no register other than a is altered.
C8_RotateAccumulator ==
    (Called /\ Last.instruction.op \in {"RLA", "RLCA", "RRA", "RRCA"})
        => LET other == execute_instruction(Last.before, PrefixFormOf(Last.instruction.op)).cpu
           IN /\ status = "returned"
              /\ cpu.registers.f.zero = FALSE
              /\ cpu.registers.a = other.registers.a
              /\ cpu.registers.f.subtract = other.registers.f.subtract
              /\ cpu.registers.f.half_carry = other.registers.f.half_carry
              /\ cpu.registers.f.carry = other.registers.f.carry
              /\ OthersUnchanged({"a"})

\* C8 witness: RLA called with a = 0b1000_0000, carry false and zero set left
\* a = 0, carry true and zero false.
C8_Witness ==
    /\ Called
    /\ Last.instruction = [op |-> "RLA"]
    /\ Last.before.registers.a = 128
    /\ ~Last.before.registers.f.carry
    /\ Last.before.registers.f.zero
    /\ cpu.registers.a = 0
    /\ cpu.registers.f.carry
    /\ ~cpu.registers.f.zero

\* bit p (0..7) of the 8-bit value v
BitOf(v, p) == (v \div (2 ^ p)) % 2

\* the integer a BitPosition stands for
PositionOf(bit_position) ==
    CHOOSE p \in 0..7 : bit_position = <<"B0", "B1", "B2", "B3", "B4", "B5", "B6", "B7">>[p + 1]

\* C9: BIT(r,p) changes no register and sets zero = (bit p of r is 0), subtract
\* false, half_carry true, carry unchanged; SET(r,p) replaces r by r | (1<<p),
\* changes no other register and leaves all four flags as they were.
C9_BitSet ==
    (/\ Called
     /\ Last.instruction.op \in {"BIT", "SET"}
     /\ Last.instruction.target \in EightBitTargets)
        => LET r == RegisterOf(Last.instruction.target)
               v == Last.before.registers[r]
               p == PositionOf(Last.instruction.bit_position)
           IN /\ status = "returned"
              /\ Last.instruction.op = "BIT" =>
                    /\ OthersUnchanged({})
                    /\ cpu.registers.f.zero = (BitOf(v, p) = 0)
                    /\ cpu.registers.f.subtract = FALSE
                    /\ cpu.registers.f.half_carry = TRUE
                    /\ cpu.registers.f.carry = Last.before.registers.f.carry
              /\ Last.instruction.op = "SET" =>
                    /\ cpu.registers[r] = IF BitOf(v, p) = 1 THEN v ELSE v + 2 ^ p
                    /\ OthersUnchanged({r})
                    /\ cpu.registers.f = Last.before.registers.f

\* C9 witness: SET(H, B3) called with h = 0b0000_0111 and all flags set left
\* h = 0b0000_1111 and the flags still all set.
C9_Witness ==
    /\ Called
    /\ Last.instruction = [op |-> "SET", target |-> "H", bit_position |-> "B3"]
    /\ Last.before.registers.h = 7
    /\ Last.before.registers.f = [zero |-> TRUE, subtract |-> TRUE, half_carry |-> TRUE, carry |-> TRUE]
    /\ cpu.registers.h = 15
    /\ cpu.registers.f = Last.before.registers.f

\* the call before the latest one
Previous == calls[Len(calls) - 1]

\* C10: INC(target) then DEC(target), or DEC(target) then INC(target), on an
\* 8-bit register or on BC, DE, HL leaves every register with the value it had
\* before the first of the two calls; for an 8-bit target the zero, subtract and
\* half_carry flags are those the second call alone defines from the value v it
\* was applied to (DEC: zero = (v-1 = 0), subtract, half_carry = (v mod 16 = 0);
\* INC: zero = (v+1 wraps to 0), not subtract, half_carry = (v mod 16 = 15)).
C10_IncDecRoundTrip ==
    (/\ Len(calls) >= 2
     /\ Previous.instruction.op \in {"INC", "DEC"}
     /\ Last.instruction.op \in {"INC", "DEC"} \ {Previous.instruction.op}
     /\ Last.instruction.target = Previous.instruction.target
     /\ Last.instruction.target \in EightBitTargets \cup {"BC", "DE", "HL"})
        => /\ status = "returned"
           /\ \A r \in RegisterNames : cpu.registers[r] = Previous.before.registers[r]
           /\ Last.instruction.target \in EightBitTargets =>
                 LET original == Previous.before.registers[RegisterOf(Last.instruction.target)]
                     v == IF Last.instruction.op = "DEC"
                          THEN (original + 1) % 256 ELSE (original + 255) % 256
                 IN /\ cpu.registers.f.zero = (original = 0)
                    /\ cpu.registers.f.subtract = (Last.instruction.op = "DEC")
                    /\ cpu.registers.f.half_carry =
                          IF Last.instruction.op = "DEC" THEN v % 16 = 0 ELSE v % 16 = 15

\* C10 witness: DEC(BC) then INC(BC) were called with BC = 0x0000: BC went
\* through 0xFFFF and is 0x0000 again.
C10_Witness ==
    /\ Len(calls) = 2
    /\ Previous.instruction = [op |-> "DEC", target |-> "BC"]
    /\ Last.instruction = [op |-> "INC", target |-> "BC"]
    /\ Previous.before.registers.b = 0
    /\ Previous.before.registers.c = 0
    /\ Last.before.registers.b = 255
    /\ Last.before.registers.c = 255
    /\ cpu.registers.b = 0
    /\ cpu.registers.c = 0

\* the two registers that own a 16-bit pair, high byte first
OwnersOf(target) ==
    CASE target = "BC" -> <<"b", "c">>
      [] target = "DE" -> <<"d", "e">>
      [] target = "HL" -> <<"h", "l">>

\* C11: INC / DEC of an 8-bit register holding v store (v+1) mod 256 /
\* (v-1) mod 256 with zero = (result = 0), subtract false / true, half_carry =
\* (v mod 16 = 15) / (v mod 16 = 0) and the carry flag kept; INC / DEC of BC, DE
\* or HL store (value +/- 1) mod 65536 in the pair's two registers and change no
\* flag; in both cases no other register changes.
C11_IncDec ==
    (/\ Called
     /\ Last.instruction.op \in {"INC", "DEC"}
     /\ Last.instruction.target \in EightBitTargets \cup {"BC", "DE", "HL"})
        => LET isInc == Last.instruction.op = "INC"
               target == Last.instruction.target
           IN /\ status = "returned"
              /\ target \in EightBitTargets =>
                    LET r == RegisterOf(target)
                        v == Last.before.registers[r]
                        result == IF isInc THEN (v + 1) % 256 ELSE (v + 255) % 256
                    IN /\ cpu.registers[r] = result
                       /\ cpu.registers.f.zero = (result = 0)
                       /\ cpu.registers.f.subtract = ~isInc
                       /\ cpu.registers.f.half_carry =
                             IF isInc THEN v % 16 = 15 ELSE v % 16 = 0
                       /\ cpu.registers.f.carry = Last.before.registers.f.carry
                       /\ OthersUnchanged({r})
              /\ target \in {"BC", "DE", "HL"} =>
                    LET hi == OwnersOf(target)[1]
                        lo == OwnersOf(target)[2]
                        value == Last.before.registers[hi] * 256 + Last.before.registers[lo]
                        result == IF isInc THEN (value + 1) % 65536 ELSE (value + 65535) % 65536
                    IN /\ cpu.registers[hi] = result \div 256
                       /\ cpu.registers[lo] = result % 256
                       /\ cpu.registers.f = Last.before.registers.f
                       /\ OthersUnchanged({hi, lo})

\* C11 witness: INC(A) called with a = 0xFF and the carry flag clear left a = 0
\* with zero and half_carry set, subtract clear and carry still clear.
C11_Witness ==
    /\ Called
    /\ Last.instruction = [op |-> "INC", target |-> "A"]
    /\ Last.before.registers.a = 255
    /\ ~Last.before.registers.f.carry
    /\ cpu.registers.a = 0
    /\ cpu.registers.f.zero
    /\ cpu.registers.f.half_carry
    /\ ~cpu.registers.f.subtract
    /\ ~cpu.registers.f.carry

\* the CPU with its carry flag negated
CarryFlipped(self) == [self EXCEPT !.registers.f.carry = ~self.registers.f.carry]

\* C12: RRC(r) on r = v stores v div 2 (bit 0 is lost, bit 7 of the result is 0)
\* and RR(r) stores (v mod 2) * 128 + v div 2; both set carry = (bit 0 of v),
\* zero = (result = 0), subtract and half_carry false; the value stored is the
\* same when the call is made with the opposite incoming carry flag.
C12_RrRrc ==
    (/\ Called
     /\ Last.instruction.op \in {"RR", "RRC"}
     /\ Last.instruction.target \in EightBitTargets)
        => LET r == RegisterOf(Last.instruction.target)
               v == Last.before.registers[r]
               result == IF Last.instruction.op = "RRC"
                         THEN v \div 2
                         ELSE (v % 2) * 128 + v \div 2
               other == execute_instruction(CarryFlipped(Last.before), Last.instruction).cpu
           IN /\ status = "returned"
              /\ cpu.registers[r] = result
              /\ Last.instruction.op = "RRC" => cpu.registers[r] < 128
              /\ cpu.registers.f.carry = (v % 2 = 1)
              /\ cpu.registers.f.zero = (result = 0)
              /\ cpu.registers.f.subtract = FALSE
              /\ cpu.registers.f.half_carry = FALSE
              /\ other.registers[r] = cpu.registers[r]

\* C12 witness: RRC(A) called with a = 0b0000_0001 left a = 0: bit 0 went to
\* the carry flag and not to bit 7, and zero is set.
C12_Witness ==
    /\ Called
    /\ Last.instruction = [op |-> "RRC", target |-> "A"]
    /\ Last.before.registers.a = 1
    /\ cpu.registers.a = 0
    /\ cpu.registers.f.carry
    /\ cpu.registers.f.zero

\* C13: RL(r) on r = v with incoming carry c stores ((v * 2) mod 256) + c and
\* RLC(r) stores ((v * 2) mod 256) + (bit 7 of v); both set carry = (bit 7 of
\* v), zero = (result = 0), subtract and half_carry false, and change no
\* register other than r.
C13_RlRlc ==
    (/\ Called
     /\ Last.instruction.op \in {"RL", "RLC"}
     /\ Last.instruction.target \in EightBitTargets)
        => LET r == RegisterOf(Last.instruction.target)
               v == Last.before.registers[r]
               c == IF Last.before.registers.f.carry THEN 1 ELSE 0
               bit7 == v \div 128
               result == ((v * 2) % 256) + (IF Last.instruction.op = "RL" THEN c ELSE bit7)
           IN /\ status = "returned"
              /\ cpu.registers[r] = result
              /\ cpu.registers.f.carry = (bit7 = 1)
              /\ cpu.registers.f.zero = (result = 0)
              /\ cpu.registers.f.subtract = FALSE
              /\ cpu.registers.f.half_carry = FALSE
              /\ OthersUnchanged({r})

\* C13 witness: RL(A) called with a = 0b1000_0000 and the carry flag set left
\* a = 0b0000_0001 with carry set and zero clear.
C13_Witness ==
    /\ Called
    /\ Last.instruction = [op |-> "RL", target |-> "A"]
    /\ Last.before.registers.a = 128
    /\ Last.before.registers.f.carry
    /\ cpu.registers.a = 1
    /\ cpu.registers.f.carry
    /\ ~cpu.registers.f.zero

\* C14: CCF negates the carry flag and SCF sets it, both clear subtract and
\* half_carry and change no register; CPL replaces a by 255 - a, sets subtract
\* and half_carry, keeps carry and every register other than a; none of the
\* three changes the zero flag.
C14_CcfCplScf ==
    (Called /\ Last.instruction.op \in {"CCF", "CPL", "SCF"})
        => LET op == Last.instruction.op
               before == Last.before.registers
           IN /\ status = "returned"
              /\ cpu.registers.f.zero = before.f.zero
              /\ op = "CCF" =>
                    /\ cpu.registers.f.carry = ~before.f.carry
                    /\ cpu.registers.f.subtract = FALSE
                    /\ cpu.registers.f.half_carry = FALSE
                    /\ OthersUnchanged({})
              /\ op = "SCF" =>
                    /\ cpu.registers.f.carry = TRUE
                    /\ cpu.registers.f.subtract = FALSE
                    /\ cpu.registers.f.half_carry = FALSE
                    /\ OthersUnchanged({})
              /\ op = "CPL" =>
                    /\ cpu.registers.a = 255 - before.a
                    /\ cpu.registers.f.subtract = TRUE
                    /\ cpu.registers.f.half_carry = TRUE
                    /\ cpu.registers.f.carry = before.f.carry
                    /\ OthersUnchanged({"a"})

\* C14 witness: CPL called with a = 0x0F, carry set and the other flags clear
\* left a = 0xF0, subtract and half_carry set, carry still set, zero still clear.
C14_Witness ==
    /\ Called
    /\ Last.instruction = [op |-> "CPL"]
    /\ Last.before.registers.a = 15
    /\ Last.before.registers.f = [zero |-> FALSE, subtract |-> FALSE, half_carry |-> FALSE, carry |-> TRUE]
    /\ cpu.registers.a = 240
    /\ cpu.registers.f = [zero |-> FALSE, subtract |-> TRUE, half_carry |-> TRUE, carry |-> TRUE]

\* bit p of A & x, A | x, A ^ x, from the bits of A and x
LogicBit(op, A, x, p) ==
    CASE op = "AND" -> IF BitOf(A, p) = 1 /\ BitOf(x, p) = 1 THEN 1 ELSE 0
      [] op = "OR" -> IF BitOf(A, p) = 1 \/ BitOf(x, p) = 1 THEN 1 ELSE 0
      [] op = "XOR" -> IF BitOf(A, p) # BitOf(x, p) THEN 1 ELSE 0

\* A & x, A | x, A ^ x as the sum of their eight bits
LogicResult(op, A, x) ==
    LogicBit(op, A, x, 0) + 2 * LogicBit(op, A, x, 1) + 4 * LogicBit(op, A, x, 2)
    + 8 * LogicBit(op, A, x, 3) + 16 * LogicBit(op, A, x, 4) + 32 * LogicBit(op, A, x, 5)
    + 64 * LogicBit(op, A, x, 6) + 128 * LogicBit(op, A, x, 7)

\* C15: AND / OR / XOR of operand x store A & x, A | x, A ^ x in a with zero =
\* (result = 0), subtract and carry false, half_carry true for AND and false for
\* OR and XOR; SWAP(r) on r = v stores (v mod 16) * 16 + v div 16 in r with
\* zero = (result = 0) and subtract, half_carry, carry false; no register other
\* than the one written changes.
C15_LogicSwap ==
    (/\ Called
     /\ Last.instruction.op \in {"AND", "OR", "XOR", "SWAP"}
     /\ Last.instruction.target \in EightBitTargets)
        => LET op == Last.instruction.op
               r == RegisterOf(Last.instruction.target)
               v == Last.before.registers[r]
               written == IF op = "SWAP" THEN r ELSE "a"
               result == IF op = "SWAP"
                         THEN (v % 16) * 16 + v \div 16
                         ELSE LogicResult(op, Last.before.registers.a, v)
           IN /\ status = "returned"
              /\ cpu.registers[written] = result
              /\ cpu.registers.f.zero = (result = 0)
              /\ cpu.registers.f.subtract = FALSE
              /\ cpu.registers.f.half_carry = (op = "AND")
              /\ cpu.registers.f.carry = FALSE
              /\ OthersUnchanged({written})

\* C15 witness: SWAP(D) called with d = 0xF0 and all four flags set left
\* d = 0x0F and all four flags clear.
C15_Witness ==
    /\ Called
    /\ Last.instruction = [op |-> "SWAP", target |-> "D"]
    /\ Last.before.registers.d = 240
    /\ Last.before.registers.f = [zero |-> TRUE, subtract |-> TRUE, half_carry |-> TRUE, carry |-> TRUE]
    /\ cpu.registers.d = 15
    /\ cpu.registers.f = [zero |-> FALSE, subtract |-> FALSE, half_carry |-> FALSE, carry |-> FALSE]

\* an array in its shortest form: no empty run, no two adjacent runs of one
\* value (CanonicalFrom: the runs already in that form, then the runs to add)
RECURSIVE CanonicalFrom(_, _)
CanonicalFrom(done, runs) ==
    IF runs = <<>> THEN done
    ELSE IF Head(runs).n = 0 THEN CanonicalFrom(done, Tail(runs))
    ELSE IF done # <<>> /\ done[Len(done)].v = Head(runs).v
         THEN CanonicalFrom([done EXCEPT ![Len(done)].n = @ + Head(runs).n], Tail(runs))
         ELSE CanonicalFrom(Append(done, Head(runs)), Tail(runs))

Canonical(runs) == CanonicalFrom(<<>>, runs)

\* an array without its first n bytes
RECURSIVE Drop(_, _)
Drop(runs, n) ==
    IF n = 0 \/ runs = <<>> THEN runs
    ELSE IF Head(runs).n > n THEN <<[n |-> Head(runs).n - n, v |-> Head(runs).v]>> \o Tail(runs)
    ELSE Drop(Tail(runs), n - Head(runs).n)

\* the first call was CPU::new, of the image FirstRom
ConstructionCalled == Called /\ calls[1].instruction.op = "new"
FirstRom == calls[1].instruction.rom

\* C16 as claimed: read_byte(address) on a constructed Memory returns a byte
\* for every address 0x0000..0xFFFF, the top address 0xFFFF included.
C16_ReadByteAlwaysSucceeds ==
    (/\ Called
     /\ Last.instruction.op = "read_byte"
     /\ Last.instruction.address \in 0..65535)
        => /\ status = "returned"
           /\ Len(Last.ret) = 1
           /\ Last.ret[1] \in 0..255

\* C16, the failing input: read_byte(0xFFFF) was called on a Memory constructed
\* from an image of 0x8000 bytes, and the call was fatal.
C16_FailingInput ==
    /\ ConstructionCalled
    /\ ArrayLen(FirstRom) = 32768
    /\ Last.instruction = [op |-> "read_byte", address |-> 65535]
    /\ status = "fatal"

C18_ShorterImageConstructs ==
    (Len(calls) = 1 /\ ConstructionCalled)
        => LET n == ArrayLen(FirstRom) IN
           /\ n <= 32768 =>
                 /\ status = "ready"
                 /\ Canonical(Take(cpu.memory.bus, n)) = Canonical(FirstRom)
                 /\ Canonical(Drop(cpu.memory.bus, n)) = <<[n |-> 65535 - n, v |-> 255]>>
           /\ status = "fatal" => n > 32768

\* C18, the failing input: CPU::new was called with an image of 0x7FFF bytes
\* and was fatal.
C18_FailingInput ==
    /\ Len(calls) = 1
    /\ ConstructionCalled
    /\ ArrayLen(FirstRom) = 32767
    /\ status = "fatal"
    /\ cpu = Unconstructed

\* the 48 bytes at 0x0104..=0x0133 of the Memory verify_logo was called on
HeaderOf(memory) == [i \in 1..48 |-> ByteAt(memory.bus, 259 + i)]

\* the positions at which a header differs from the official logo
Mismatches(header) == {i \in 1..48 : header[i] # Memory_official_logo[i]}

\* C19 as claimed: verify_logo passes when the bytes at 0x0104..=0x0133 are the
\* 48 bytes of the official logo, and is fatal when one position of a correct
\* header holds a different byte.
C19_VerifyLogoRejectsOneWrongByte ==
    (Called /\ Last.instruction.op = "verify_logo")
        => LET header == HeaderOf(Last.before.memory) IN
           /\ Cardinality(Mismatches(header)) = 0 => status = "returned"
           /\ Cardinality(Mismatches(header)) = 1 => status = "fatal"

\* C19, the failing input: verify_logo was called on an image whose header is
\* the official logo with the byte at 0x010A (0x00) overwritten by 0xCE, and it
\* returned.
C19_FailingInput ==
    /\ ConstructionCalled
    /\ FirstRom = WithHeader(Overwritten(7, 206))
    /\ Mismatches(HeaderOf(cpu.memory)) = {7}
    /\ Last.instruction.op = "verify_logo"
    /\ status = "returned"

\* C20: after any sequence of execute_instruction calls on a constructed CPU,
\* the memory bus and the interrupt flags are those of the construction (those
\* every call of the sequence was made on), and pc and sp are 0.
C20_OnlyRegistersWritten ==
    Called
        => /\ calls[1].before = CPU_new("None", WithHeader(Memory_official_logo)).cpu
           /\ cpu.memory.bus = calls[1].before.memory.bus
           /\ cpu.memory.interrupt_flags = InterruptFlags_new
           /\ cpu.pc = 0
           /\ cpu.sp = 0
           /\ \A k \in 1..Len(calls) : calls[k].before.memory = cpu.memory

\* C20 witness: SET(A, B7) then INC(HL) were called on the CPU constructed with
\* the logo image; both returned, a and l changed, and the bus still holds the
\* logo's first byte at 0x0104 and 0xFF above the image.
C20_Witness ==
    /\ Len(calls) = 2
    /\ calls[1].instruction = [op |-> "SET", target |-> "A", bit_position |-> "B7"]
    /\ calls[2].instruction = [op |-> "INC", target |-> "HL"]
    /\ status = "returned"
    /\ cpu.registers.a = 128
    /\ cpu.registers.l = 1
    /\ ByteAt(cpu.memory.bus, 260) = 206
    /\ ByteAt(cpu.memory.bus, 32768) = 255

\* C21 as claimed: CPU::new(None, rom) with a rom image of 0xFFFF zero bytes,
\* the fixture of the executor tests, returns a CPU (no fatal error) whose
\* 8-bit registers are all 0 and whose four flags are all false, on which an
\* instruction can then be executed.
C21_FixtureConstructs ==
    (/\ Len(calls) = 1
     /\ ConstructionCalled
     /\ FirstRom = Blank(BUS_LEN, 0))
        => /\ status = "ready"
           /\ cpu # Unconstructed
           /\ \A r \in RegisterNames : cpu.registers[r] = 0
           /\ cpu.registers.f = [zero |-> FALSE, subtract |-> FALSE,
                                 half_carry |-> FALSE, carry |-> FALSE]

\* C21, the failing input: CPU::new(None, vec![0; 0xFFFF]) was called and was
\* fatal: there is no CPU.
C21_FailingInput ==
    /\ Len(calls) = 1
    /\ ConstructionCalled
    /\ FirstRom = Blank(BUS_LEN, 0)
    /\ ArrayLen(FirstRom) = 65535
    /\ status = "fatal"
    /\ cpu = Unconstructed

====
